---- MODULE Spec2Model ----
(***************************************************************************)
(* The sailing wind calculator: the Pinia store `sailing` (two rings, the  *)
(* apparent wind derived from them, the canvas frame and the drag session) *)
(* driven by the gesture controller of useSailingCanvas.                   *)
(*                                                                         *)
(* Numbers.  A JavaScript number is modelled in fixed point:               *)
(*   - lengths are whole pixels; the canvas sizes of Sizes are chosen so   *)
(*     that every product of updateCanvasDimensions and moveSelectedRing   *)
(*     is a whole number, and Math.sqrt rounds to the nearest pixel;       *)
(*   - angles are whole degrees, so that Math.PI is 180 and 2 * Math.PI is *)
(*     360; Math.atan2 rounds to the nearest degree and Math.sin/Math.cos  *)
(*     are read from a table scaled by TrigScale;                          *)
(*   - speeds are hundredths of a knot (SpeedScale);                       *)
(*   - a division 0/0 gives NaN, which every later operation propagates.   *)
(* Rounding errors of IEEE doubles below these resolutions are not         *)
(* modelled.                                                               *)
(***************************************************************************)
EXTENDS Integers, Sequences, FiniteSets, TLC

VARIABLES
    store,          \* the state of the Pinia store `sailing`
    ctlDragging,    \* setupGestures: let isDragging
    currentRing,    \* setupGestures: let currentRing
    mounted,        \* the component is mounted: the canvas is in the document
    unmounted,      \* onUnmounted has run
    listeners,      \* the registered listeners, <<target, type, closure>>
    gestureCleanup, \* the closure whose listeners gestureCleanup.value removes
    render,         \* the render loop: animationId and the frame requests
    kernel,         \* the last call of a useWindCalculations function
    lastEvent,      \* history: the handler that ran last
    steps           \* history: the number of events handled

vars == <<store, ctlDragging, currentRing, mounted, unmounted, listeners,
          gestureCleanup, render, kernel, lastEvent, steps>>

-----------------------------------------------------------------------------
(* Bounds of the model *)

\* number of events (pointer, key, resize, unmount) explored after mounting
MaxSteps == 4

\* number of direct calls of store actions explored from the initialised store
MaxCalls == 3

\* number of animation-frame requests explored
MaxFrames == 4

-----------------------------------------------------------------------------
(* JavaScript numbers *)

\* Math.PI, in degrees
Pi == 180

\* scale of the sine table
TrigScale == 10000

\* speeds are kept in 1/SpeedScale knots
SpeedScale == 100

Num(n) == [nan |-> FALSE, val |-> n]

NaN == [nan |-> TRUE, val |-> 0]

Abs(n) == IF n < 0 THEN -n ELSE n

Min(a, b) == IF a < b THEN a ELSE b

Max(a, b) == IF a > b THEN a ELSE b

\* a / b rounded to the nearest whole number (b > 0), halves away from zero
RoundDiv(a, b) == IF a >= 0 THEN (2 * a + b) \div (2 * b)
                  ELSE -((2 * (-a) + b) \div (2 * b))

\* the JavaScript remainder a % b: the sign of the result is that of a
JSRem(a, b) == IF a >= 0 THEN a % b ELSE -((-a) % b)

RECURSIVE SqrtSearch(_, _, _)
\* the largest r in lo..hi with r * r <= n
SqrtSearch(n, lo, hi) ==
    IF lo >= hi THEN lo
    ELSE LET mid == (lo + hi + 1) \div 2
         IN  IF mid * mid <= n THEN SqrtSearch(n, mid, hi)
             ELSE SqrtSearch(n, lo, mid - 1)

\* Math.sqrt, rounded to the nearest whole number
Sqrt(n) ==
    LET r == SqrtSearch(n, 0, 46340)
    IN  IF n - r * r > r THEN r + 1 ELSE r

SinTable ==
  << 0, 175, 349, 523, 698, 872, 1045, 1219, 1392, 1564, 1736, 1908, 2079,
     2250, 2419, 2588, 2756, 2924, 3090, 3256, 3420, 3584, 3746, 3907, 4067, 4226,
     4384, 4540, 4695, 4848, 5000, 5150, 5299, 5446, 5592, 5736, 5878, 6018, 6157,
     6293, 6428, 6561, 6691, 6820, 6947, 7071, 7193, 7314, 7431, 7547, 7660, 7771,
     7880, 7986, 8090, 8192, 8290, 8387, 8480, 8572, 8660, 8746, 8829, 8910, 8988,
     9063, 9135, 9205, 9272, 9336, 9397, 9455, 9511, 9563, 9613, 9659, 9703, 9744,
     9781, 9816, 9848, 9877, 9903, 9925, 9945, 9962, 9976, 9986, 9994, 9998, 10000 >>

\* Math.sin of an angle in degrees, times TrigScale
Sin(a) ==
    LET d == ((a % 360) + 360) % 360
    IN  IF d <= 90 THEN SinTable[d + 1]
        ELSE IF d <= 180 THEN SinTable[180 - d + 1]
        ELSE IF d <= 270 THEN -SinTable[d - 180 + 1]
        ELSE -SinTable[360 - d + 1]

\* Math.cos of an angle in degrees, times TrigScale
Cos(a) == Sin(a + 90)

RECURSIVE AtanSearch(_, _, _, _)
\* the largest d in lo..hi with tan(d) <= y / x, for x, y >= 0
AtanSearch(y, x, lo, hi) ==
    IF lo >= hi THEN lo
    ELSE LET mid == (lo + hi + 1) \div 2
         IN  IF y * Cos(mid) >= x * Sin(mid) THEN AtanSearch(y, x, mid, hi)
             ELSE AtanSearch(y, x, lo, mid - 1)

\* Math.atan2(y, x) in degrees, in (-180, 180], rounded to the nearest degree;
\* Math.atan2(0, 0) is 0
Atan2(y, x) ==
    IF x = 0 /\ y = 0 THEN 0
    ELSE LET ay == Abs(y)
             ax == Abs(x)
             lo == AtanSearch(ay, ax, 0, 90)
             errLo == ay * Cos(lo) - ax * Sin(lo)
             errHi == ax * Sin(lo + 1) - ay * Cos(lo + 1)
             q  == IF lo < 90 /\ errHi < errLo THEN lo + 1 ELSE lo
         IN  IF x >= 0 THEN (IF y >= 0 THEN q ELSE -q)
             ELSE IF y >= 0 THEN 180 - q ELSE q - 180

-----------------------------------------------------------------------------
(* useWindCalculations *)

degToRad(degrees) == (degrees * Pi) \div 180

normalizeAngle(angle) ==
    LET normalized == JSRem(angle, 2 * Pi)
    IN  IF normalized < 0 THEN normalized + 2 * Pi ELSE normalized

\* Math.cos(angle) < 0 in double precision: Math.cos(Math.PI / 2) is
\* 6.1e-17 and Math.cos(3 * Math.PI / 2) is -1.8e-16
CosNegative(angle) ==
    LET d == angle % (2 * Pi) IN 90 < d /\ d <= 270

\* polar = [angle, magnitude], magnitude a Num; the result is [nan, x, y, negx];
\* negx tells that x is the negative zero: 0 * Math.cos(angle) is -0 when the
\* cosine is negative
polarToCartesian(polar) ==
    IF polar.magnitude.nan THEN [nan |-> TRUE, x |-> 0, y |-> 0, negx |-> FALSE]
    ELSE [nan |-> FALSE,
          x |-> RoundDiv(polar.magnitude.val * Cos(polar.angle), TrigScale),
          y |-> RoundDiv(polar.magnitude.val * Sin(polar.angle), TrigScale),
          negx |-> polar.magnitude.val = 0 /\ CosNegative(polar.angle)]

\* -0 - (+0) is -0; every other difference that is zero is +0
subtractVectors(a, b) ==
    IF a.nan \/ b.nan THEN [nan |-> TRUE, x |-> 0, y |-> 0, negx |-> FALSE]
    ELSE [nan |-> FALSE, x |-> a.x - b.x, y |-> a.y - b.y,
          negx |-> a.negx /\ b.x = 0 /\ ~b.negx]

\* the result is [angle, magnitude], both Num; Math.atan2(+-0, -0) is +-pi,
\* which normalizeAngle takes to pi, and Math.atan2(+-0, +0) is +-0
cartesianToPolar(vector) ==
    IF vector.nan THEN [angle |-> NaN, magnitude |-> NaN]
    ELSE [angle |-> Num(IF vector.x = 0 /\ vector.y = 0 /\ vector.negx
                        THEN Pi
                        ELSE Atan2(vector.y, vector.x)),
          magnitude |-> Num(Sqrt(vector.x * vector.x + vector.y * vector.y))]

\* trueWind = [angle, speed], boat = [heading, speed]; speed a Num
calculateApparentWind(trueWind, boat) ==
    LET trueWindVector == polarToCartesian(
            [angle |-> trueWind.angle, magnitude |-> trueWind.speed])
        boatVector == polarToCartesian(
            [angle |-> boat.heading, magnitude |-> boat.speed])
        apparentWindVector == subtractVectors(trueWindVector, boatVector)
        apparentWindPolar == cartesianToPolar(apparentWindVector)
    IN  IF apparentWindPolar.angle.nan
        THEN [angle |-> NaN, speed |-> NaN]
        ELSE [angle |-> Num(normalizeAngle(apparentWindPolar.angle.val)),
              speed |-> Num(Max(0, apparentWindPolar.magnitude.val))]

\* distance between two points
distance(a, b) ==
    LET dx == a.x - b.x
        dy == a.y - b.y
    IN  Sqrt(dx * dx + dy * dy)

\* minSeparation: number = degToRad(10)
DefaultSeparation == 10

\* an angleCollision that compares the plain difference, without wraparound
angleCollisionNoWrap(angle1, angle2, minSeparation) ==
    Abs(normalizeAngle(angle1) - normalizeAngle(angle2)) < minSeparation

angleCollision(angle1, angle2, minSeparation) ==
    LET diff == Abs(normalizeAngle(angle1) - normalizeAngle(angle2))
        minDiff == Min(diff, 2 * Pi - diff)
    IN  minDiff < minSeparation

\* the body of the loop of constrainAngle, for one existing angle
constrainStep(constrainedAngle, existingAngle, minSeparation) ==
    IF angleCollision(constrainedAngle, existingAngle, minSeparation)
    THEN LET normalizedExisting == normalizeAngle(existingAngle)
             option1 == normalizeAngle(normalizedExisting + minSeparation)
             option2 == normalizeAngle(normalizedExisting - minSeparation)
             diff1 == Abs(normalizeAngle(constrainedAngle) - option1)
             diff2 == Abs(normalizeAngle(constrainedAngle) - option2)
         IN  IF diff1 < diff2 THEN option1 ELSE option2
    ELSE constrainedAngle

RECURSIVE constrainLoop(_, _, _)
\* for (const existingAngle of existingAngles)
constrainLoop(constrainedAngle, existingAngles, minSeparation) ==
    IF existingAngles = << >> THEN constrainedAngle
    ELSE constrainLoop(
           constrainStep(constrainedAngle, Head(existingAngles), minSeparation),
           Tail(existingAngles), minSeparation)

constrainAngle(proposedAngle, existingAngles, minSeparation) ==
    constrainLoop(normalizeAngle(proposedAngle), existingAngles, minSeparation)

-----------------------------------------------------------------------------
(* stores/sailing: program constants *)

\* windSpeed: "Max 30 knots"
WindSpeedCap == 30

\* boatSpeed: "Max 20 knots"
BoatSpeedCap == 20

\* moveSelectedRing: step = 0.05, in hundredths
StepPercent == 5

\* moveSelectedRing: degToRad(5)
NudgeDegrees == 5

\* getRingAt: tolerance, in pixels
Tolerance == 20

Rings == {"wind", "boat"}

\* selectedRing and currentRing: a ring, or "none" for null
NoRing == "none"

\* dragStart: << >> for null, <<point>> otherwise
NoPoint == << >>

-----------------------------------------------------------------------------
(* stores/sailing: state, getters *)

InitialState ==
    [ windRing  |-> [angle |-> degToRad(0), radius |-> 180, spokes |-> 3,
                     minRadius |-> 80, maxRadius |-> 250],
      boatRing  |-> [angle |-> degToRad(45), radius |-> 120, spokes |-> 4,
                     minRadius |-> 60, maxRadius |-> 180],
      apparentWind |-> [angle |-> Num(degToRad(0)), speed |-> Num(0)],
      canvas    |-> [width |-> 800, height |-> 600, centerX |-> 400, centerY |-> 300],
      selectedRing |-> NoRing,
      isDragging   |-> FALSE,
      dragStart    |-> NoPoint ]

\* ((radius - minRadius) / (maxRadius - minRadius)) * cap, a Num in 1/SpeedScale
\* knots; the quotient is 0/0 = NaN when the bounds and the radius coincide
\* (the only reachable case of equal bounds, see DegenerateOnlyAtZero)
speedOf(ring, cap) ==
    IF ring.maxRadius - ring.minRadius = 0 THEN NaN
    ELSE Num(RoundDiv((ring.radius - ring.minRadius) * cap * SpeedScale,
                      ring.maxRadius - ring.minRadius))

windSpeed(s) == speedOf(s.windRing, WindSpeedCap)

boatSpeed(s) == speedOf(s.boatRing, BoatSpeedCap)

-----------------------------------------------------------------------------
(* stores/sailing: actions, as functions from the state to the new state *)

\* a resize that also drops the selection
updateCanvasDimensionsDeselecting(s, width, height) ==
    LET maxSize == (Min(width, height) * 4) \div 10
        boatMax == (maxSize * 8) \div 10
    IN  [s EXCEPT
           !.canvas = [width |-> width, height |-> height,
                       centerX |-> width \div 2, centerY |-> height \div 2],
           !.windRing.maxRadius = maxSize,
           !.windRing.minRadius = (maxSize * 4) \div 10,
           !.windRing.radius = Min(s.windRing.radius, maxSize),
           !.boatRing.maxRadius = boatMax,
           !.boatRing.minRadius = (maxSize * 3) \div 10,
           !.boatRing.radius = Min(s.boatRing.radius, boatMax),
           !.selectedRing = NoRing]

\* a resize that puts the rings back to their initial angles
updateCanvasDimensionsResetting(s, width, height) ==
    LET maxSize == (Min(width, height) * 4) \div 10
        boatMax == (maxSize * 8) \div 10
    IN  [s EXCEPT
           !.canvas = [width |-> width, height |-> height,
                       centerX |-> width \div 2, centerY |-> height \div 2],
           !.windRing.maxRadius = maxSize,
           !.windRing.minRadius = (maxSize * 4) \div 10,
           !.windRing.radius = Min(s.windRing.radius, maxSize),
           !.windRing.angle = InitialState.windRing.angle,
           !.boatRing.maxRadius = boatMax,
           !.boatRing.minRadius = (maxSize * 3) \div 10,
           !.boatRing.radius = Min(s.boatRing.radius, boatMax),
           !.boatRing.angle = InitialState.boatRing.angle]

updateCanvasDimensions(s, width, height) ==
    LET maxSize == (Min(width, height) * 4) \div 10
        boatMax == (maxSize * 8) \div 10
    IN  [s EXCEPT
           !.canvas = [width |-> width, height |-> height,
                       centerX |-> width \div 2, centerY |-> height \div 2],
           !.windRing.maxRadius = maxSize,
           !.windRing.minRadius = (maxSize * 4) \div 10,
           !.windRing.radius = Min(s.windRing.radius, maxSize),
           !.boatRing.maxRadius = boatMax,
           !.boatRing.minRadius = (maxSize * 3) \div 10,
           !.boatRing.radius = Min(s.boatRing.radius, boatMax)]

startRingDrag(s, ringType, startPoint) ==
    [s EXCEPT !.selectedRing = ringType,
              !.isDragging = TRUE,
              !.dragStart = <<startPoint>>]

\* the store action calculateApparentWind
recalculateApparentWind(s) ==
    [s EXCEPT !.apparentWind = calculateApparentWind(
                 [angle |-> s.windRing.angle, speed |-> windSpeed(s)],
                 [heading |-> s.boatRing.angle, speed |-> boatSpeed(s)])]

\* |deltaR| > |startRadius * deltaTheta|, deltaTheta in degrees: the arc length
\* is startRadius * deltaTheta * pi / 180, with pi taken as 355 / 113
MoreRadial(deltaR, startRadius, deltaTheta) ==
    Abs(deltaR) * 113 * 180 > Abs(startRadius * deltaTheta) * 355

\* a radial drag forgetting the lower bound, as updateCanvasDimensions does
dragRadiusNoFloor(ring, deltaR) == Min(ring.maxRadius, ring.radius + deltaR)

\* updateRingDrag: the radius after a radial drag of deltaR
dragRadius(ring, deltaR) ==
    Max(ring.minRadius, Min(ring.maxRadius, ring.radius + deltaR))

updateRingDrag(s, currentPoint) ==
    IF s.selectedRing = NoRing \/ s.dragStart = NoPoint \/ ~s.isDragging THEN s
    ELSE
    LET ring == IF s.selectedRing = "wind" THEN s.windRing ELSE s.boatRing
        center == [x |-> s.canvas.centerX, y |-> s.canvas.centerY]
        startVector == [x |-> s.dragStart[1].x - center.x,
                        y |-> s.dragStart[1].y - center.y]
        currentVector == [x |-> currentPoint.x - center.x,
                          y |-> currentPoint.y - center.y]
        startRadius == Sqrt(startVector.x * startVector.x
                            + startVector.y * startVector.y)
        currentRadius == Sqrt(currentVector.x * currentVector.x
                              + currentVector.y * currentVector.y)
        deltaR == currentRadius - startRadius
        startAngle == Atan2(startVector.y, startVector.x)
        currentAngle == Atan2(currentVector.y, currentVector.x)
        deltaTheta == normalizeAngle(currentAngle - startAngle)
        newRadius == dragRadius(ring, deltaR)
        newAngle == normalizeAngle(ring.angle + deltaTheta)
        moved ==
            IF MoreRadial(deltaR, startRadius, deltaTheta)
            THEN IF s.selectedRing = "wind"
                 THEN [s EXCEPT !.windRing.radius = newRadius]
                 ELSE [s EXCEPT !.boatRing.radius = newRadius]
            ELSE IF s.selectedRing = "wind"
                 THEN [s EXCEPT !.windRing.angle = newAngle]
                 ELSE [s EXCEPT !.boatRing.angle = newAngle]
    IN  recalculateApparentWind([moved EXCEPT !.dragStart = <<currentPoint>>])

\* an end of drag that leaves the isDragging flag set
endRingDragKeepsFlag(s) ==
    [s EXCEPT !.selectedRing = NoRing, !.dragStart = NoPoint]

endRingDrag(s) ==
    [s EXCEPT !.selectedRing = NoRing,
              !.isDragging = FALSE,
              !.dragStart = NoPoint]

initialize(s) == recalculateApparentWind(s)

\* a nudge that does not normalise the angle
nudgeNoWrap(ring, direction) ==
    CASE direction = "left"  ->
           [ring EXCEPT !.angle = ring.angle - degToRad(NudgeDegrees)]
      [] direction = "right" ->
           [ring EXCEPT !.angle = ring.angle + degToRad(NudgeDegrees)]
      [] direction = "up"    ->
           [ring EXCEPT !.radius = Min(ring.maxRadius,
               ring.radius + (ring.maxRadius * StepPercent) \div 100)]
      [] direction = "down"  ->
           [ring EXCEPT !.radius = Max(ring.minRadius,
               ring.radius - (ring.maxRadius * StepPercent) \div 100)]

\* one ring after a keyboard nudge
nudge(ring, direction) ==
    CASE direction = "left"  ->
           [ring EXCEPT !.angle = normalizeAngle(ring.angle - degToRad(NudgeDegrees))]
      [] direction = "right" ->
           [ring EXCEPT !.angle = normalizeAngle(ring.angle + degToRad(NudgeDegrees))]
      [] direction = "up"    ->
           [ring EXCEPT !.radius = Min(ring.maxRadius,
               ring.radius + (ring.maxRadius * StepPercent) \div 100)]
      [] direction = "down"  ->
           [ring EXCEPT !.radius = Max(ring.minRadius,
               ring.radius - (ring.maxRadius * StepPercent) \div 100)]

\* a moveSelectedRing that nudges both rings
moveSelectedRingBoth(s, direction) ==
    IF s.selectedRing = NoRing THEN s
    ELSE recalculateApparentWind(
           [s EXCEPT !.windRing = nudge(s.windRing, direction),
                     !.boatRing = nudge(s.boatRing, direction)])

moveSelectedRing(s, direction) ==
    IF s.selectedRing = NoRing THEN s
    ELSE recalculateApparentWind(
           IF s.selectedRing = "wind"
           THEN [s EXCEPT !.windRing = nudge(s.windRing, direction)]
           ELSE [s EXCEPT !.boatRing = nudge(s.boatRing, direction)])

\* a selectRing that drops the selection it is given
selectRingDropped(s, ringType) == s

selectRing(s, ringType) == [s EXCEPT !.selectedRing = ringType]

-----------------------------------------------------------------------------
(* Inputs of the model *)

\* the sizes getBoundingClientRect reports, <<width, height>>: the default
\* layout, a small one, a large one and a collapsed canvas
Sizes == { <<1000, 500>>, <<500, 250>>, <<2500, 1250>>, <<0, 500>> }

Pt(px, py) == [x |-> px, y |-> py]

\* pointer positions in canvas coordinates: the centre of the default layout,
\* points east of it at 130, 180 and 200 pixels, a point south of it at 180
\* pixels, a point 230 pixels away at -10 degrees and a point far outside the
\* canvas
Points == { Pt(500, 250), Pt(630, 250), Pt(680, 250), Pt(700, 250),
            Pt(500, 430), Pt(726, 210), Pt(2900, -1550) }

Keys == {"ArrowLeft", "ArrowRight", "ArrowUp", "ArrowDown", "Escape"}

-----------------------------------------------------------------------------
(* composables/useSailingCanvas *)

\* a hit test that takes the tolerance band closed (<= instead of <)
getRingAtClosedBand(s, point) ==
    LET center == [x |-> s.canvas.centerX, y |-> s.canvas.centerY]
        distFromCenter == distance(point, center)
    IN  IF Abs(distFromCenter - s.windRing.radius) <= Tolerance THEN "wind"
        ELSE IF Abs(distFromCenter - s.boatRing.radius) <= Tolerance THEN "boat"
        ELSE NoRing

\* a hit test that looks at the boat ring first
getRingAtBoatFirst(s, point) ==
    LET center == [x |-> s.canvas.centerX, y |-> s.canvas.centerY]
        distFromCenter == distance(point, center)
    IN  IF Abs(distFromCenter - s.boatRing.radius) < Tolerance THEN "boat"
        ELSE IF Abs(distFromCenter - s.windRing.radius) < Tolerance THEN "wind"
        ELSE NoRing

getRingAt(s, point) ==
    LET center == [x |-> s.canvas.centerX, y |-> s.canvas.centerY]
        distFromCenter == distance(point, center)
    IN  IF Abs(distFromCenter - s.windRing.radius) < Tolerance THEN "wind"
        ELSE IF Abs(distFromCenter - s.boatRing.radius) < Tolerance THEN "boat"
        ELSE NoRing

\* The listeners.  initCanvas runs twice when the component is mounted, from
\* the onMounted hook of useSailingCanvas and from the onMounted hook of
\* InteractiveSailingCanvas.vue; each run calls setupGestures, which creates a
\* closure (1, then 2) with its own isDragging and currentRing and registers
\* its three handlers.  Closure 0 stands for useSailingCanvas itself, whose
\* handleResize and handleKeyDown are registered on window.  While the
\* component is mounted both gesture closures receive the same events in the
\* same order, and the second handler finds the store as the first left it,
\* which changes neither what getRingAt returns nor the guards of the handlers
\* (SecondHandlerAgrees): the two closures hold the same isDragging and
\* currentRing, kept once in ctlDragging and currentRing.

\* gestureCleanup.value = null
NoCleanup == 0

\* setupGestures: the listeners closure c registers
GestureListeners(c) ==
    { <<"canvas", "mousedown", c>>,
      <<"document", "mousemove", c>>,
      <<"document", "mouseup", c>> }

\* onMounted: the listeners of useSailingCanvas on window
WindowListeners == { <<"window", "resize", 0>>, <<"window", "keydown", 0>> }

\* the listeners an event of the given type reaches: a canvas out of the
\* document receives no pointer event
Delivered(type) ==
    { l \in listeners : l[2] = type /\ (l[1] = "canvas" => mounted) }

\* an event of the given type is handled by both gesture closures
HandledTwice(type) == Cardinality(Delivered(type)) > 1

\* initCanvas, on the store: the canvas is measured and the store initialised
initCanvasStore(s, size) == initialize(updateCanvasDimensions(s, size[1], size[2]))

\* animationId.value = undefined
NoAnimation == 0

\* the render loop before it starts: no frame requested, nothing drawn
NoRender == [animationId |-> NoAnimation, pending |-> {}, requested |-> 0,
             draws |-> 0]

\* no useWindCalculations function called yet
NoCall == [op |-> "none", args |-> << >>, result |-> 0]

\* animate: draw, then request the next frame; request ids count from 1
animate(r, canvasPresent) ==
    IF ~canvasPresent THEN r
    ELSE [r EXCEPT !.draws = @ + 1,
                   !.requested = @ + 1,
                   !.pending = @ \cup {r.requested + 1},
                   !.animationId = r.requested + 1]

\* a startAnimation that does not cancel the frame already requested
startAnimationNoCancel(r, canvasPresent) == animate(r, canvasPresent)

startAnimation(r, canvasPresent) ==
    animate(IF r.animationId # NoAnimation
            THEN [r EXCEPT !.pending = @ \ {r.animationId}]
            ELSE r,
            canvasPresent)

stopAnimation(r) ==
    IF r.animationId # NoAnimation
    THEN [r EXCEPT !.pending = @ \ {r.animationId},
                   !.animationId = NoAnimation]
    ELSE r

Init ==
    /\ store = InitialState
    /\ render = NoRender
    /\ kernel = NoCall
    /\ ctlDragging = FALSE
    /\ currentRing = NoRing
    /\ mounted = FALSE
    /\ unmounted = FALSE
    /\ listeners = {}
    /\ gestureCleanup = NoCleanup
    /\ lastEvent = "none"
    /\ steps = 0

\* the component is mounted.  The onMounted hook of useSailingCanvas runs
\* initCanvas (setupGestures creates closure 1 and stores its cleanup) and
\* registers handleResize and handleKeyDown; then the onMounted hook of the
\* component runs initCanvas again (setupGestures creates closure 2 and
\* overwrites gestureCleanup.value)
InitCanvas ==
    /\ ~mounted /\ ~unmounted
    /\ \E size \in Sizes :
         store' = initCanvasStore(initCanvasStore(store, size), size)
    /\ listeners' = GestureListeners(1) \cup WindowListeners \cup GestureListeners(2)
    /\ gestureCleanup' = 2
    /\ render' = startAnimation(startAnimation(render, TRUE), TRUE)
    /\ mounted' = TRUE
    /\ lastEvent' = "mount"
    /\ UNCHANGED <<ctlDragging, currentRing, unmounted, kernel, steps>>

\* an event reaches at least one listener; the model explores MaxSteps events
Event(name) ==
    /\ Delivered(name) # {}
    /\ steps < MaxSteps
    /\ steps' = steps + 1
    /\ lastEvent' = name
    /\ UNCHANGED <<mounted, unmounted, listeners, gestureCleanup, render, kernel>>

\* handleMouseDown, on the store
mouseDown(s, canvasPoint) ==
    LET ring == getRingAt(s, canvasPoint)
    IN  IF ring # NoRing THEN startRingDrag(s, ring, canvasPoint)
        ELSE selectRing(s, NoRing)

MouseDownAt(canvasPoint) ==
    /\ Event("mousedown")
    /\ store' = LET first == mouseDown(store, canvasPoint)
                IN  IF HandledTwice("mousedown")
                    THEN mouseDown(first, canvasPoint) ELSE first
    /\ LET ring == getRingAt(store, canvasPoint)
       IN  IF ring # NoRing
           THEN /\ currentRing' = ring
                /\ ctlDragging' = TRUE
           ELSE UNCHANGED <<currentRing, ctlDragging>>

HandleMouseDown == \E canvasPoint \in Points : MouseDownAt(canvasPoint)

MouseMoveAt(canvasPoint) ==
    /\ Event("mousemove")
    /\ IF ~ctlDragging \/ currentRing = NoRing
       THEN UNCHANGED store
       ELSE store' = LET first == updateRingDrag(store, canvasPoint)
                     IN  IF HandledTwice("mousemove")
                         THEN updateRingDrag(first, canvasPoint) ELSE first
    /\ UNCHANGED <<ctlDragging, currentRing>>

HandleMouseMove == \E canvasPoint \in Points : MouseMoveAt(canvasPoint)

HandleMouseUp ==
    /\ Event("mouseup")
    /\ IF ctlDragging /\ currentRing # NoRing
       THEN store' = LET first == selectRing(endRingDrag(store), currentRing)
                     IN  IF HandledTwice("mouseup")
                         THEN selectRing(endRingDrag(first), currentRing)
                         ELSE first
       ELSE UNCHANGED store
    /\ ctlDragging' = FALSE
    /\ currentRing' = NoRing

ResizeTo(size) ==
    /\ Event("resize")
    /\ store' = updateCanvasDimensions(store, size[1], size[2])
    /\ UNCHANGED <<ctlDragging, currentRing>>

HandleResize == \E size \in Sizes : ResizeTo(size)

\* a key handler that falls back to the wind ring when no ring is selected
keyDownDefaultWind(s, key) ==
    LET t == IF s.selectedRing = NoRing THEN selectRing(s, "wind") ELSE s
    IN  CASE key = "ArrowLeft"  -> moveSelectedRing(t, "left")
          [] key = "ArrowRight" -> moveSelectedRing(t, "right")
          [] key = "ArrowUp"    -> moveSelectedRing(t, "up")
          [] key = "ArrowDown"  -> moveSelectedRing(t, "down")
          [] key = "Escape"     -> selectRing(s, NoRing)
          [] OTHER              -> s

keyDown(s, key) ==
    IF s.selectedRing = NoRing THEN s
    ELSE CASE key = "ArrowLeft"  -> moveSelectedRing(s, "left")
           [] key = "ArrowRight" -> moveSelectedRing(s, "right")
           [] key = "ArrowUp"    -> moveSelectedRing(s, "up")
           [] key = "ArrowDown"  -> moveSelectedRing(s, "down")
           [] key = "Escape"     -> selectRing(s, NoRing)
           [] OTHER              -> s

KeyDownOf(key) ==
    /\ Event("keydown")
    /\ store' = keyDown(store, key)
    /\ UNCHANGED <<ctlDragging, currentRing>>

HandleKeyDown == \E key \in Keys : KeyDownOf(key)

\* onUnmounted: the window listeners and the listeners of the closure that
\* gestureCleanup.value names are removed
OnUnmounted ==
    /\ mounted
    /\ steps < MaxSteps
    /\ steps' = steps + 1
    /\ lastEvent' = "unmount"
    /\ mounted' = FALSE
    /\ unmounted' = TRUE
    /\ listeners' = (listeners \ WindowListeners) \
                       (IF gestureCleanup = NoCleanup THEN {}
                        ELSE GestureListeners(gestureCleanup))
    /\ render' = stopAnimation(render)
    /\ UNCHANGED <<store, ctlDragging, currentRing, gestureCleanup, kernel>>

Next ==
    \/ InitCanvas
    \/ HandleMouseDown
    \/ HandleMouseMove
    \/ HandleMouseUp
    \/ HandleResize
    \/ HandleKeyDown
    \/ OnUnmounted

Spec == Init /\ [][Next]_vars

-----------------------------------------------------------------------------
(* The store called directly, with any argument a caller can pass *)

\* ring ids a caller can pass: the two rings and an id that names no ring
RingIds == Rings \cup {"mast"}

\* the pointer positions and canvas sizes of the direct calls
CallPoints == { Pt(630, 250), Pt(726, 210) }

CallSizes == { <<1000, 500>>, <<2500, 1250>> }

StoreInit ==
    /\ store = initCanvasStore(InitialState, <<1000, 500>>)
    /\ render = NoRender
    /\ kernel = NoCall
    /\ ctlDragging = FALSE
    /\ currentRing = NoRing
    /\ mounted = FALSE
    /\ unmounted = FALSE
    /\ listeners = {}
    /\ gestureCleanup = NoCleanup
    /\ lastEvent = "initialize"
    /\ steps = 0

\* one more call of a store action
Call(name) ==
    /\ steps < MaxCalls
    /\ steps' = steps + 1
    /\ lastEvent' = name
    /\ UNCHANGED <<ctlDragging, currentRing, mounted, unmounted, listeners,
                   gestureCleanup, render, kernel>>

CallUpdateCanvasDimensions ==
    /\ Call("updateCanvasDimensions")
    /\ \E size \in CallSizes :
         store' = updateCanvasDimensions(store, size[1], size[2])

CallStartRingDrag ==
    /\ Call("startRingDrag")
    /\ \E ringType \in RingIds, startPoint \in CallPoints :
         store' = startRingDrag(store, ringType, startPoint)

CallUpdateRingDrag ==
    /\ Call("updateRingDrag")
    /\ \E currentPoint \in CallPoints :
         store' = updateRingDrag(store, currentPoint)

CallEndRingDrag ==
    /\ Call("endRingDrag")
    /\ store' = endRingDrag(store)

CallMoveSelectedRing ==
    /\ Call("moveSelectedRing")
    /\ \E direction \in {"left", "right", "up", "down"} :
         store' = moveSelectedRing(store, direction)

CallSelectRing ==
    /\ Call("selectRing")
    /\ \E ringType \in RingIds \cup {NoRing} :
         store' = selectRing(store, ringType)

StoreNext ==
    \/ CallUpdateCanvasDimensions
    \/ CallStartRingDrag
    \/ CallUpdateRingDrag
    \/ CallEndRingDrag
    \/ CallMoveSelectedRing
    \/ CallSelectRing

StoreSpec == StoreInit /\ [][StoreNext]_vars

-----------------------------------------------------------------------------
(* The render loop: the component's life with its animation frames *)

\* the browser runs the callback of a pending frame request: animate
AnimationFrame ==
    /\ render.requested < MaxFrames
    /\ \E id \in render.pending :
         render' = animate([render EXCEPT !.pending = @ \ {id}], mounted)
    /\ lastEvent' = "frame"
    /\ UNCHANGED <<store, ctlDragging, currentRing, mounted, unmounted,
                   listeners, gestureCleanup, kernel, steps>>

RenderNext ==
    \/ InitCanvas
    \/ AnimationFrame
    \/ HandleResize
    \/ OnUnmounted

RenderSpec == Init /\ [][RenderNext]_vars

-----------------------------------------------------------------------------
(* useWindCalculations called directly *)

\* angles in degrees, normalised or not, on both sides of the 0/360 boundary
KernelAngles == { -370, -5, 0, 2, 5, 15, 90, 345, 355, 358, 365, 725 }

\* minimum separations, in degrees
KernelSeparations == { DefaultSeparation, 2 * DefaultSeparation }

\* wind angles and boat headings, in degrees
WindAngles == { 0, 37, 90, 180, 200, 355 }

\* speeds in 1/SpeedScale knots: 0, 5 and 10 knots
KernelSpeeds == { 0, 5 * SpeedScale, 10 * SpeedScale }

\* one call of a function, from the state in which none was made
Applied(op, args, result) ==
    /\ kernel = NoCall
    /\ kernel' = [op |-> op, args |-> args, result |-> result]
    /\ lastEvent' = op
    /\ UNCHANGED <<store, ctlDragging, currentRing, mounted, unmounted,
                   listeners, gestureCleanup, render, steps>>

ApplyAngleCollision ==
    \E angle1 \in KernelAngles, angle2 \in KernelAngles,
       minSeparation \in KernelSeparations :
        Applied("angleCollision", <<angle1, angle2, minSeparation>>,
                angleCollision(angle1, angle2, minSeparation))

ApplyConstrainAngle ==
    \E proposedAngle \in KernelAngles, existingAngle \in KernelAngles,
       minSeparation \in KernelSeparations :
        Applied("constrainAngle", <<proposedAngle, existingAngle, minSeparation>>,
                constrainAngle(proposedAngle, <<existingAngle>>, minSeparation))

ApplyCalculateApparentWind ==
    \E windAngle \in WindAngles, windKnots \in KernelSpeeds,
       heading \in WindAngles, boatKnots \in KernelSpeeds :
        Applied("calculateApparentWind",
                <<windAngle, windKnots, heading, boatKnots>>,
                calculateApparentWind(
                    [angle |-> windAngle, speed |-> Num(windKnots)],
                    [heading |-> heading, speed |-> Num(boatKnots)]))

KernelNext ==
    \/ ApplyAngleCollision
    \/ ApplyConstrainAngle
    \/ ApplyCalculateApparentWind

KernelSpec == Init /\ [][KernelNext]_vars

-----------------------------------------------------------------------------
(* Properties *)

\* the handleMouseDown of the second gesture closure, running after that of
\* the first, hits the same ring
SecondHandlerAgrees ==
    \A p \in Points : getRingAt(mouseDown(store, p), p) = getRingAt(store, p)

RingInBounds(ring) ==
    ring.minRadius <= ring.radius /\ ring.radius <= ring.maxRadius

RingsInBounds(s) == RingInBounds(s.windRing) /\ RingInBounds(s.boatRing)

\* equal bounds are reached only with a collapsed canvas, where the radius is
\* clamped to the same value: speedOf then divides 0 by 0
DegenerateOnlyAtZero ==
    \A ring \in {store.windRing, store.boatRing} :
        ring.maxRadius <= ring.minRadius =>
            ring.maxRadius = 0 /\ ring.minRadius = 0 /\ ring.radius = 0

\* the apparent wind the kernel derives from the rings as they are now
FreshApparentWind(s) == recalculateApparentWind(s).apparentWind

\* C1: in every state reachable after initialize(), apparentWind equals
\* calculateApparentWind applied to the current ring angles and derived speeds
C1_ApparentWindFresh ==
    mounted => store.apparentWind = FreshApparentWind(store)

\* C2: after updateCanvasDimensions with any positive width and height, from
\* any prior ring state, both rings have minRadius <= radius <= maxRadius
C2_ResizeReclamps ==
    [][ \A size \in Sizes :
          (size[1] > 0 /\ size[2] > 0 /\ ResizeTo(size)) => RingsInBounds(store)'
      ]_vars

\* C3: from a state with both rings within their bounds, a pointer-down,
\* pointer-move, pointer-up or key event leaves both rings within their bounds,
\* wherever the pointer is
C3_GesturesKeepBounds ==
    [][ ( /\ RingsInBounds(store)
          /\ (HandleMouseDown \/ HandleMouseMove \/ HandleMouseUp \/ HandleKeyDown) )
        => RingsInBounds(store)'
      ]_vars

\* C3: a drag has just moved to the far point and another to the exact centre
\* would be clamped the same way: the dragged ring sits on a bound
C3_Witness ==
    /\ lastEvent = "mousemove"
    /\ store.isDragging
    /\ store.dragStart \in { <<Pt(2900, -1550)>>, <<Pt(500, 250)>> }
    /\ store.selectedRing = "wind"
    /\ store.windRing.radius \in {store.windRing.minRadius, store.windRing.maxRadius}
    /\ store.windRing.minRadius < store.windRing.maxRadius
    /\ RingsInBounds(store)

\* a number that is not NaN and lies in [0, 2 * Math.PI)
InTurn(n) == ~n.nan /\ 0 <= n.val /\ n.val < 2 * Pi

\* a number that is not NaN and is >= 0
NonNegative(n) == ~n.nan /\ n.val >= 0

\* C4: in every reachable state the angle of the wind ring, of the boat ring
\* and of the apparent wind lies in [0, 2 * pi)
C4_AnglesInTurn ==
    /\ InTurn(Num(store.windRing.angle))
    /\ InTurn(Num(store.boatRing.angle))
    /\ InTurn(store.apparentWind.angle)

\* C5: in every reachable state windSpeed >= 0, boatSpeed >= 0 and
\* apparentWind.speed >= 0
C5_SpeedsNonNegative ==
    /\ NonNegative(windSpeed(store))
    /\ NonNegative(boatSpeed(store))
    /\ NonNegative(store.apparentWind.speed)

Degenerate(ring) == ring.maxRadius <= ring.minRadius

\* C6: when a ring's bounds are degenerate (maxRadius <= minRadius) its derived
\* speed is 0, and neither speed nor the apparent wind computed from them is NaN
C6_DegenerateSpeedIsZero ==
    /\ Degenerate(store.windRing) => windSpeed(store) = Num(0)
    /\ Degenerate(store.boatRing) => boatSpeed(store) = Num(0)
    /\ (Degenerate(store.windRing) \/ Degenerate(store.boatRing)) =>
          /\ ~FreshApparentWind(store).speed.nan
          /\ ~FreshApparentWind(store).angle.nan

\* the ring of the store with the given name
RingOf(s, name) == IF name = "wind" THEN s.windRing ELSE s.boatRing

\* C7: a pointer-up received while a drag of ring R is in progress ends the
\* drag session (isDragging false, dragStart null) and leaves selectedRing = R,
\* so that the next arrow key nudges R
C7_PointerUpKeepsSelection ==
    [][ (HandleMouseUp /\ ctlDragging /\ currentRing # NoRing /\ store.isDragging)
        => /\ ~store'.isDragging
           /\ store'.dragStart = NoPoint
           /\ store'.selectedRing = currentRing
           /\ RingOf(keyDown(store', "ArrowRight"), currentRing).angle
                = normalizeAngle(RingOf(store', currentRing).angle
                                 + degToRad(NudgeDegrees))
      ]_vars

\* C7: a drag of a ring has just been ended by a pointer-up and the ring is
\* still selected
C7_Witness ==
    /\ lastEvent = "mouseup"
    /\ store.selectedRing \in Rings
    /\ ~store.isDragging
    /\ store.dragStart = NoPoint

\* the point is outside the tolerance band of both rings
OutsideBoth(s, point) ==
    LET d == distance(point, [x |-> s.canvas.centerX, y |-> s.canvas.centerY])
    IN  /\ Abs(d - s.windRing.radius) >= Tolerance
        /\ Abs(d - s.boatRing.radius) >= Tolerance

\* C8: a pointer-down outside the tolerance band of both rings sets
\* selectedRing to none, starts no drag and leaves both rings as they were
C8_MissClearsSelection ==
    [][ \A p \in Points :
          (MouseDownAt(p) /\ OutsideBoth(store, p))
          => /\ store'.selectedRing = NoRing
             /\ store'.isDragging = store.isDragging
             /\ ctlDragging' = ctlDragging
             /\ (~store.isDragging => ~store'.isDragging)
             /\ store'.windRing = store.windRing
             /\ store'.boatRing = store.boatRing
      ]_vars

\* C8: a pointer-down has just landed on empty space, exactly Tolerance away
\* from the wind ring, and no ring is selected or dragged
C8_Witness ==
    /\ lastEvent = "mousedown"
    /\ store.selectedRing = NoRing
    /\ ~store.isDragging
    /\ \E p \in Points :
         LET d == distance(p, [x |-> store.canvas.centerX,
                               y |-> store.canvas.centerY])
         IN  /\ OutsideBoth(store, p)
             /\ Abs(d - store.windRing.radius) = Tolerance

\* C9: on pointer-down a ring is hit exactly when |distance - radius| <
\* Tolerance; the hit ring becomes selectedRing with isDragging true, and when
\* both rings are within tolerance the wind ring is chosen
C9_HitTest ==
    [][ \A p \in Points :
          MouseDownAt(p) =>
            LET d == distance(p, [x |-> store.canvas.centerX,
                                  y |-> store.canvas.centerY])
                hitWind == Abs(d - store.windRing.radius) < Tolerance
                hitBoat == Abs(d - store.boatRing.radius) < Tolerance
            IN  /\ hitWind =>
                     store'.selectedRing = "wind" /\ store'.isDragging
                /\ (hitBoat /\ ~hitWind) =>
                     store'.selectedRing = "boat" /\ store'.isDragging
                /\ (hitWind \/ hitBoat) =>
                     /\ store'.dragStart = <<p>>
                     /\ ctlDragging'
                     /\ currentRing' = store'.selectedRing
                /\ (~hitWind /\ ~hitBoat) =>
                     store'.selectedRing = NoRing /\ ctlDragging' = ctlDragging
      ]_vars

\* C9: a pointer-down has just landed within the tolerance of both rings and
\* selected the wind ring
C9_Witness ==
    /\ lastEvent = "mousedown"
    /\ store.isDragging
    /\ store.selectedRing = "wind"
    /\ store.dragStart # NoPoint
    /\ LET d == distance(store.dragStart[1], [x |-> store.canvas.centerX,
                                              y |-> store.canvas.centerY])
       IN  /\ Abs(d - store.windRing.radius) < Tolerance
           /\ Abs(d - store.boatRing.radius) < Tolerance
           /\ store.windRing.radius # store.boatRing.radius

\* Math.min(Math.max(value, lo), hi), as the kernel's clamp
clamp(value, lo, hi) == Min(Max(value, lo), hi)

\* C10: a pointer-move at p while ring R is dragged positions R absolutely:
\* R.angle = normalizeAngle(atan2(p.y - centerY, p.x - centerX)) and
\* R.radius = clamp(distance(p, centre), R.minRadius, R.maxRadius)
C10_AbsolutePositioning ==
    [][ \A p \in Points :
          ( /\ MouseMoveAt(p)
            /\ ctlDragging /\ currentRing # NoRing
            /\ store.isDragging /\ store.selectedRing = currentRing
            /\ store.dragStart # NoPoint )
          => LET center == [x |-> store.canvas.centerX, y |-> store.canvas.centerY]
                 before == RingOf(store, currentRing)
                 after  == RingOf(store', currentRing)
             IN  /\ after.angle =
                      normalizeAngle(Atan2(p.y - center.y, p.x - center.x))
                 /\ after.radius =
                      clamp(distance(p, center), before.minRadius, before.maxRadius)
      ]_vars

\* the signed smallest angular change from angle a to angle b, in [-Pi, Pi)
SignedTurn(a, b) == ((b - a + 3 * Pi) % (2 * Pi)) - Pi

\* C11: during a drag, a pointer-move whose change in distance from the
\* centre exceeds its tangential displacement (start radius times the signed
\* smallest angular change) changes the radius and not the angle of the dragged
\* ring, and a move along the circle changes the angle and not the radius, in
\* both rotation directions
C11_RadialOrCircular ==
    [][ \A p \in Points :
          ( /\ MouseMoveAt(p)
            /\ ctlDragging /\ currentRing \in Rings
            /\ store.isDragging /\ store.selectedRing = currentRing
            /\ store.dragStart # NoPoint )
          => LET center == [x |-> store.canvas.centerX, y |-> store.canvas.centerY]
                 start  == store.dragStart[1]
                 before == RingOf(store, currentRing)
                 after  == RingOf(store', currentRing)
                 startRadius == distance(start, center)
                 deltaR == distance(p, center) - startRadius
                 turn == SignedTurn(Atan2(start.y - center.y, start.x - center.x),
                                    Atan2(p.y - center.y, p.x - center.x))
             IN  /\ MoreRadial(deltaR, startRadius, turn) =>
                       /\ after.angle = before.angle
                       /\ after.radius =
                            clamp(before.radius + deltaR,
                                  before.minRadius, before.maxRadius)
                 /\ (deltaR = 0 /\ turn # 0) =>
                       /\ after.radius = before.radius
                       /\ after.angle = (before.angle + turn) % (2 * Pi)
      ]_vars

\* C12: with no ring selected, an arrow key or Escape leaves the whole store
\* state unchanged
C12_KeysIgnoredWithoutSelection ==
    [][ (store.selectedRing = NoRing /\ HandleKeyDown) => store' = store ]_vars

\* C12: the first event after mounting was a key, pressed with no ring selected
C12_Witness ==
    /\ lastEvent = "keydown"
    /\ steps = 1
    /\ store.selectedRing = NoRing

ArrowKeys == {"ArrowLeft", "ArrowRight", "ArrowUp", "ArrowDown"}

\* C13: once a drag of ring R has ended, selectedRing stays R through arrow
\* keys, resizes and pointer-moves; it changes only on Escape (to none) or on
\* the next pointer-down (to what the pointer-down hits)
C13_SelectionPersists ==
    [][ \A R \in Rings :
          (store.selectedRing = R /\ ~store.isDragging /\ ~ctlDragging) =>
            /\ ( \/ HandleMouseMove
                 \/ HandleResize
                 \/ \E key \in ArrowKeys : KeyDownOf(key) )
               => store'.selectedRing = R
            /\ store'.selectedRing # R =>
                 \/ KeyDownOf("Escape") /\ store'.selectedRing = NoRing
                 \/ \E p \in Points :
                       /\ MouseDownAt(p)
                       /\ store'.selectedRing = getRingAt(store, p)
      ]_vars

\* C13: a drag of the boat ring has ended and a resize has just been handled
\* with the boat ring still selected
C13_Witness ==
    /\ lastEvent = "resize"
    /\ store.selectedRing = "boat"
    /\ ~store.isDragging
    /\ ~ctlDragging

\* C14: a resize changes only the canvas frame, the radius bounds and the
\* radii: the angles, selectedRing, isDragging and dragStart are as before
C14_ResizeKeepsAnglesAndSession ==
    [][ HandleResize =>
          store' = [store EXCEPT
                      !.canvas = store'.canvas,
                      !.windRing.minRadius = store'.windRing.minRadius,
                      !.windRing.maxRadius = store'.windRing.maxRadius,
                      !.windRing.radius = store'.windRing.radius,
                      !.boatRing.minRadius = store'.boatRing.minRadius,
                      !.boatRing.maxRadius = store'.boatRing.maxRadius,
                      !.boatRing.radius = store'.boatRing.radius]
      ]_vars

\* C14: a resize has just been handled in the middle of a drag that had turned
\* the boat ring away from its initial angle
C14_Witness ==
    /\ lastEvent = "resize"
    /\ store.isDragging
    /\ store.selectedRing = "boat"
    /\ store.dragStart # NoPoint
    /\ store.boatRing.angle # InitialState.boatRing.angle

\* C15: after a pointer-up isDragging is false in the store and in the
\* controller, and isDragging becomes true only by a pointer-down that hits a
\* ring
C15_NoStuckDrag ==
    [][ /\ HandleMouseUp => (~store'.isDragging /\ ~ctlDragging')
        /\ ( /\ store'.isDragging \/ ctlDragging'
             /\ ~(store.isDragging \/ ctlDragging) )
           => \E p \in Points :
                 MouseDownAt(p) /\ getRingAt(store, p) # NoRing
      ]_vars

\* C15: a drag of the wind ring, during which ArrowLeft was pressed, has just
\* been ended by a pointer-up
C15_Witness ==
    /\ lastEvent = "mouseup"
    /\ steps = 3
    /\ store.selectedRing = "wind"
    /\ store.windRing.angle = normalizeAngle(-degToRad(NudgeDegrees))
    /\ ~store.isDragging
    /\ ~ctlDragging

\* the angle and radius of both rings
RingPositions(s) ==
    <<s.windRing.angle, s.windRing.radius, s.boatRing.angle, s.boatRing.radius>>

\* C16: after startRingDrag or selectRing with an id that names no ring,
\* updateRingDrag and moveSelectedRing leave both rings' angle and radius
\* unchanged, and updateRingDrag without an active drag changes nothing
C16_MalformedIdsAreNoOps ==
    [][ /\ ( /\ store.selectedRing \notin (Rings \cup {NoRing})
             /\ (CallUpdateRingDrag \/ CallMoveSelectedRing) )
           => RingPositions(store') = RingPositions(store)
        /\ ( /\ CallUpdateRingDrag
             /\ (~store.isDragging \/ store.dragStart = NoPoint) )
           => store' = store
      ]_vars

\* C17: after the component is unmounted no listener registered by
\* useSailingCanvas remains, and no event changes the store
C17_ListenersCleanedUp ==
    [][ unmounted => (listeners = {} /\ store' = store) ]_vars

\* C18: with ring R selected, ArrowLeft sets R.angle to the angle 5 degrees
\* less and ArrowRight to the angle 5 degrees more, modulo a full turn, and
\* neither changes R.radius
C18_LeftRightNudge ==
    [][ \A R \in Rings :
          store.selectedRing = R =>
            LET before == RingOf(store, R)
                after  == RingOf(store', R)
            IN  /\ KeyDownOf("ArrowLeft") =>
                     /\ after.angle = (before.angle - NudgeDegrees) % (2 * Pi)
                     /\ after.radius = before.radius
                /\ KeyDownOf("ArrowRight") =>
                     /\ after.angle = (before.angle + NudgeDegrees) % (2 * Pi)
                     /\ after.radius = before.radius
      ]_vars

\* C18: the wind ring, hit at angle 0, has just been nudged left across the
\* 0/360 boundary
C18_Witness ==
    /\ lastEvent = "keydown"
    /\ steps = 2
    /\ store.selectedRing = "wind"
    /\ store.windRing.angle = 2 * Pi - NudgeDegrees

\* C19: with ring R selected, ArrowUp / ArrowDown set R.radius to
\* clamp(R.radius +/- 0.05 * R.maxRadius, R.minRadius, R.maxRadius), whatever
\* the radius was before, and leave R.angle unchanged
C19_UpDownNudge ==
    [][ \A R \in Rings :
          store.selectedRing = R =>
            LET before == RingOf(store, R)
                after  == RingOf(store', R)
                step   == (before.maxRadius * StepPercent) \div 100
            IN  /\ KeyDownOf("ArrowUp") =>
                     /\ after.radius = clamp(before.radius + step,
                                             before.minRadius, before.maxRadius)
                     /\ after.angle = before.angle
                /\ KeyDownOf("ArrowDown") =>
                     /\ after.radius = clamp(before.radius - step,
                                             before.minRadius, before.maxRadius)
                     /\ after.angle = before.angle
      ]_vars

\* C20: for the selected ring, ArrowRight followed by ArrowLeft restores the
\* angle, and ArrowUp followed by ArrowDown restores the radius whenever the
\* ArrowUp step was not clamped at maxRadius
C20_NudgesAreInverse ==
    \A R \in Rings :
        (mounted /\ store.selectedRing = R) =>
          LET ring  == RingOf(store, R)
              right == keyDown(store, "ArrowRight")
              up    == keyDown(store, "ArrowUp")
              step  == (ring.maxRadius * StepPercent) \div 100
          IN  /\ RingOf(keyDown(right, "ArrowLeft"), R).angle = ring.angle
              /\ ring.radius + step <= ring.maxRadius =>
                    RingOf(keyDown(up, "ArrowDown"), R).radius = ring.radius

-----------------------------------------------------------------------------
(* useWindCalculations: the angle helpers and the apparent-wind kernel *)

\* the circular distance of two angles: the shorter way round, in [0, Pi]
CircDist(a, b) ==
    LET d == (a - b) % (2 * Pi) IN Min(d, 2 * Pi - d)

\* C21: constrainAngle of a proposed angle against one existing angle
\* returns, when the two collide, whichever of existing + minSeparation and
\* existing - minSeparation (normalised) is nearer to the proposed angle in
\* circular distance, and the result no longer collides; without a collision
\* it returns the normalised proposed angle; also across 0/360.
C21_ConstrainAngleNearest ==
    kernel.op = "constrainAngle" =>
        LET proposed == kernel.args[1]
            existing == kernel.args[2]
            minSep   == kernel.args[3]
            plus     == (existing + minSep) % (2 * Pi)
            minus    == (existing - minSep) % (2 * Pi)
        IN  IF CircDist(proposed, existing) < minSep
            THEN /\ kernel.result \in {plus, minus}
                 /\ CircDist(kernel.result, proposed)
                        = Min(CircDist(plus, proposed), CircDist(minus, proposed))
                 /\ CircDist(kernel.result, existing) >= minSep
            ELSE kernel.result = proposed % (2 * Pi)

\* C22: angleCollision is true exactly when the circular distance of the two
\* angles is strictly less than the minimum separation; it is symmetric in
\* its two angles and handles wraparound for unnormalised and negative
\* angles (355 and 5 degrees are 10 degrees apart).
C22_CollisionIsCircularDistance ==
    kernel.op = "angleCollision" =>
        LET a1     == kernel.args[1]
            a2     == kernel.args[2]
            minSep == kernel.args[3]
        IN  /\ kernel.result = (CircDist(a1, a2) < minSep)
            /\ kernel.result = angleCollision(a2, a1, minSep)

\* 355 and 5 degrees collide under a separation of 20 degrees
C22_Witness ==
    /\ kernel.op = "angleCollision"
    /\ kernel.args = <<355, 5, 2 * DefaultSeparation>>
    /\ kernel.result = TRUE

\* the resolution of the fixed-point kernel: one degree, 1/SpeedScale knot
Close(a, b) == Abs(a - b) <= 1

\* two angles at most one degree apart round the circle
CloseAngle(a, b) == CircDist(a, b) <= 1

\* the apparent wind returned by the last call is the given angle and speed
ApparentWindIs(angle, speed) ==
    /\ ~kernel.result.angle.nan
    /\ ~kernel.result.speed.nan
    /\ CloseAngle(kernel.result.angle.val, angle)
    /\ Close(kernel.result.speed.val, speed)

\* C23: with zero boat speed calculateApparentWind returns the true wind, in
\* angle and in speed, for every true-wind angle in [0, 2*pi) and every
\* true-wind speed >= 0, true-wind speed 0 included.
C23_ZeroBoatSpeedGivesTrueWind ==
    (kernel.op = "calculateApparentWind" /\ kernel.args[4] = 0) =>
        ApparentWindIs(kernel.args[1], kernel.args[2])

\* C24: with zero true-wind speed calculateApparentWind returns the boat
\* speed as speed and normalizeAngle(boat.heading + pi) as angle, for every
\* boat heading and every boat speed >= 0, whatever the true-wind angle.
C24_ZeroWindGivesReversedBoat ==
    (kernel.op = "calculateApparentWind" /\ kernel.args[2] = 0) =>
        ApparentWindIs((kernel.args[3] + Pi) % (2 * Pi), kernel.args[4])

\* C25: on a common axis the apparent wind is the true wind minus the boat
\* velocity: wind and boat pointing the same way with wind speed w >= boat
\* speed b give the wind's angle and speed w - b; pointing in opposite
\* directions they give the wind's angle and speed w + b.
C25_CommonAxis ==
    kernel.op = "calculateApparentWind" =>
        LET windAngle == kernel.args[1]
            w         == kernel.args[2]
            heading   == kernel.args[3]
            b         == kernel.args[4]
        IN  /\ (windAngle = heading /\ w >= b)
                    => ApparentWindIs(windAngle, w - b)
            /\ windAngle = (heading + Pi) % (2 * Pi)
                    => ApparentWindIs(windAngle, w + b)

-----------------------------------------------------------------------------
(* The store and the controller: speeds, selection, drags *)

\* the speed of the ring is the linear interpolation of its radius between
\* its bounds, to the nearest 1/SpeedScale knot: 0 at minRadius, the cap at
\* maxRadius, non-decreasing in the radius, and at most the cap
SpeedIsInterpolation(ring, cap) ==
    LET at(r)  == speedOf([ring EXCEPT !.radius = r], cap)
        mid    == (ring.minRadius + ring.maxRadius) \div 2
        width  == ring.maxRadius - ring.minRadius
        radii  == {ring.minRadius, mid, ring.radius, ring.maxRadius}
    IN  /\ at(ring.minRadius) = Num(0)
        /\ at(ring.maxRadius) = Num(cap * SpeedScale)
        /\ \A r \in radii :
              /\ ~at(r).nan
              /\ 2 * Abs(at(r).val * width
                         - (r - ring.minRadius) * cap * SpeedScale) <= Abs(width)
        /\ \A r1 \in radii, r2 \in radii :
              r1 <= r2 => at(r1).val <= at(r2).val
        /\ at(ring.radius).val <= cap * SpeedScale

\* C26: the speed of a ring is the linear interpolation
\* ((radius - minRadius) / (maxRadius - minRadius)) * cap, with cap 30 knots
\* for the wind ring and 20 knots for the boat ring: 0 at minRadius, the cap
\* at maxRadius, non-decreasing in the radius, and in every reachable state
\* windSpeed <= 30 and boatSpeed <= 20.
C26_SpeedInterpolation ==
    /\ SpeedIsInterpolation(store.windRing, WindSpeedCap)
    /\ SpeedIsInterpolation(store.boatRing, BoatSpeedCap)

\* C27: in every state the controller drives the store into (pointer-down,
\* move, up, arrow keys, Escape, resize, in any order) isDragging implies
\* that selectedRing is 'wind' or 'boat', and dragStart is non-null exactly
\* when isDragging is true.
C27_DraggingHasSelection ==
    /\ store.isDragging => store.selectedRing \in Rings
    /\ (store.dragStart # NoPoint) <=> store.isDragging

\* C28: selectedRing changes from none to a ring only as the direct result
\* of a pointer-down that hits that ring: once Escape or a click on empty
\* space has cleared the selection, no pointer-move, pointer-up, key or
\* resize selects a ring again, even when Escape came in the middle of a drag.
C28_SelectedOnlyByPointerDown ==
    [][ (store.selectedRing = NoRing /\ store'.selectedRing \in Rings)
        => \E p \in Points :
             /\ MouseDownAt(p)
             /\ getRingAt(store, p) = store'.selectedRing ]_vars

\* C29: drag updates and keyboard nudges modify only the selected ring: a
\* pointer-move or a key leaves the angle, radius, minRadius and maxRadius of
\* the other ring unchanged, and the ring a pointer-move modifies is the ring
\* that the pointer-down of the gesture hit.
\* (lastEvent' names the handler of the step: handleMouseMove or handleKeyDown;
\* currentRing is the ring the last pointer-down hit.)
C29_OnlySelectedRingMoves ==
    [][ \A R \in Rings :
          ( /\ lastEvent' \in {"mousemove", "keydown"}
            /\ RingOf(store', R) # RingOf(store, R) )
          => /\ store.selectedRing = R
             /\ lastEvent' = "mousemove" => currentRing = R ]_vars

\* C29: a pointer-move of a drag that began on the boat ring has turned the
\* boat ring, and the wind ring is where initCanvas left it
C29_Witness ==
    /\ lastEvent = "mousemove"
    /\ steps = 2
    /\ ctlDragging /\ currentRing = "boat"
    /\ store.selectedRing = "boat"
    /\ store.boatRing.angle # InitialState.boatRing.angle
    /\ store.windRing.angle = InitialState.windRing.angle
    /\ store.windRing = initCanvasStore(initCanvasStore(InitialState, <<1000, 500>>),
                                        <<1000, 500>>).windRing

-----------------------------------------------------------------------------
(* The render loop *)

\* at most one frame request is pending, and none once unmounted
OneFramePending ==
    /\ Cardinality(render.pending) <= 1
    /\ unmounted => render.pending = {}

\* C30: at most one animation-frame request of the render loop is pending at
\* any time, also with initCanvas and startAnimation run twice on mount, and
\* after unmount no request is pending and draw is never called again.
C30_RenderLoop ==
    /\ []OneFramePending
    /\ [][ unmounted => render'.draws = render.draws ]_vars

\* C30: after the double initCanvas a frame has fired and has requested the
\* next one, which is the only request pending
C30_Witness ==
    /\ mounted
    /\ lastEvent = "frame"
    /\ render.draws = 3
    /\ render.pending = {render.animationId}

====
